---- MODULE Spec2Model ----
(***************************************************************************)
(* BlazeSend OTP lifecycle engine: OTPService (hashed storage with TTL,    *)
(* rate limiting, attempt limiting, verification), MessagingService.sendOTP*)
(* and the two OTP routes of the Express server.  Every await on the Redis *)
(* client is one step of a request context; the store is shared.           *)
(***************************************************************************)
EXTENDS Integers, Sequences, FiniteSets, TLC

\* ---------------------------------------------------------------- bounds
NumProcs == 2        \* request contexts
RandSteps == 2       \* Math.random() yields r / RandSteps, r in 0..RandSteps-1
TickLen == 300       \* seconds of wall-clock time that pass in one Tick
MaxEvents == 5       \* request arrivals and clock advances in a concurrent run
MaxFails == 2        \* rejected store calls in a run with a failing store
MaxLapses == 2       \* moments at which time passes inside a run
RaceCalls == 3       \* calls in a run of racing issuances and verifications
MaxSwitches == 2     \* provider switch requests in a run

\* ------------------------------------------------------ program constants
OTP_EXPIRY == 600
MAX_ATTEMPTS == 3
RATE_LIMIT_WINDOW == 3600
MAX_OTP_PER_HOUR == 3

Procs == 1..NumProcs

\* ------------------------------------------------------------ identifiers
\* A string is a sequence of tokens; template literals concatenate.
Phone1 == <<"233241234567">>
Email1 == <<"user@example.com">>
Ids == {Phone1, Email1}

\* an address that isValidEmail accepts and that starts with the word of
\* the attempts namespace
Alias1 == <<"attempts:">> \o Email1
AllIds == Ids \cup {Alias1}

\* (channel, identifier) pairs that pass the route's validation
SendInputs == {[channel |-> "sms", id |-> Phone1],
               [channel |-> "email", id |-> Email1],
               [channel |-> "email", id |-> Alias1]}

OtpKey(identifier) == <<"otp:">> \o identifier
AttemptsKey(identifier) == <<"otp:", "attempts:">> \o identifier
RateLimitKey(identifier) == <<"otp:", "ratelimit:">> \o identifier

AllKeys == UNION {{OtpKey(i), AttemptsKey(i), RateLimitKey(i)} : i \in AllIds}

\* ------------------------------------------------------- strings / values
\* Number.prototype.toString: decimal digits, no leading zeros
RECURSIVE toString(_)
toString(n) == IF n < 10 THEN <<n>> ELSE Append(toString(n \div 10), n % 10)

\* value of a decimal digit string
RECURSIVE DigitsVal(_)
DigitsVal(s) ==
    IF Len(s) = 0 THEN 0
    ELSE 10 * DigitsVal(SubSeq(s, 1, Len(s) - 1)) + s[Len(s)]

\* Store values are strings: a decimal string, or the hex digest of a string.
Nil == [kind |-> "nil", s |-> <<>>]
Dec(s) == [kind |-> "dec", s |-> s]
Sha256Hex(s) == [kind |-> "sha256hex", s |-> s]

\* parseInt of a decimal string (the counters are the only values parsed)
parseInt(v) == DigitsVal(v.s)

\* variant: Math.floor(Math.random() * 1000000).toString()
generateOTP_FromZero(r) == toString((r * 1000000) \div RandSteps)

\* Math.floor(100000 + Math.random() * 900000).toString(), random = r/RandSteps
generateOTP(r) == toString((100000 * RandSteps + r * 900000) \div RandSteps)

\* variant: the code is kept as it is
hashOTP_Raw(otp) == Dec(otp)

hashOTP(otp) == Sha256Hex(otp)

\* variant: /^\d{1,6}$/
isValidOTP_UpToSix(otp) ==
    Len(otp) \in 1..6 /\ \A k \in 1..Len(otp) : otp[k] \in 0..9

\* isValidOTP: /^\d{6}$/
isValidOTP(otp) == Len(otp) = 6 /\ \A k \in 1..Len(otp) : otp[k] \in 0..9

GenCodes == {generateOTP(r) : r \in 0..(RandSteps - 1)}
WrongCode == <<0, 0, 0, 0, 0, 0>>
VerifyCodes == GenCodes \cup {WrongCode}

\* otp values of a request body that are not six decimal digits: none, five
\* and seven digits, and six characters of which one is a letter (a
\* character is a digit 0..9 or NonDigit)
NonDigit == 10
MalformedCodes == {<<>>, <<1, 0, 0, 0, 0>>, <<1, 0, 0, 0, 0, 0, 0>>,
                   <<1, 0, 0, NonDigit, 0, 0>>}

\* ------------------------------------------------------------ Redis store
Absent == [val |-> Nil, ttl |-> 0, persist |-> FALSE]

Get(st, k) == st[k].val

SetEx(st, k, seconds, v) ==
    [st EXCEPT ![k] = [val |-> v, ttl |-> seconds, persist |-> FALSE]]

\* INCR: an absent key becomes "1" without expiry; a present key keeps its TTL
Incr(st, k) ==
    IF st[k].val = Nil
    THEN [st EXCEPT ![k] = [val |-> Dec(<<1>>), ttl |-> 0, persist |-> TRUE]]
    ELSE [st EXCEPT ![k].val = Dec(toString(parseInt(@) + 1))]

Del(st, k) == [st EXCEPT ![k] = Absent]

\* key expiry after d seconds
Expire(st, d) ==
    [k \in DOMAIN st |->
        IF st[k].val = Nil \/ st[k].persist THEN st[k]
        ELSE IF st[k].ttl - d <= 0 THEN Absent
        ELSE [st[k] EXCEPT !.ttl = @ - d]]

\* ---------------------------------------------------------------- messages
MsgRateLimit == "Rate limit exceeded. Maximum 3 OTPs per hour."
MsgSent == "OTP sent successfully via channel"
MsgNoSMS == "No SMS provider configured"
MsgNoEmail == "No email provider configured"

\* what the provider's request comes back with: delivered, or the text of
\* the error (the remote API's message or the HTTP client's, any string)
Delivered == "delivered"
ErrorTexts == {"Request failed with status code 401", MsgNoSMS, MsgNoEmail}
ProviderOutcomes == {Delivered} \cup ErrorTexts

\* variant: the error text is returned as it is
providerError_Verbatim(name, text) == text

\* a provider's failure message: `${name} Error: ${text}`
providerError(name, text) == name \o " Error: " \o text
MsgNotFound == "OTP expired or not found"
MsgExceeded == "Maximum verification attempts exceeded"
MsgVerified == "OTP verified successfully"
MsgInvalid == "Invalid OTP. N attempt(s) remaining"
MsgServerError == "Server error: store"
MsgMissingOtp == "Missing required field: otp"
MsgBadFormat == "Invalid OTP format. Must be 6 digits"

\* ------------------------------------------------------------------- state
VARIABLES
    store,          \* Redis: key -> [val, ttl, persist]
    targets,        \* the identifiers that the requests of this run address
    activeSms,      \* SMSService.activeProvider (name or "None")
    activeEmail,    \* EmailService.activeProvider (name or "None")
    nodeEnv,        \* process.env.NODE_ENV
    pc,             \* position of each request context
    ctx,            \* locals and response of each request context
    issued,         \* history: raw code of the last code record written, per id
    prevIssued,     \* history: raw code of the code record written before that
    fails,          \* history: Mismatch results since that code was written
    verified,       \* history: code that verified since then (<<>> if none)
    age,            \* history: seconds since that code was written (capped)
    winLeft,        \* history: seconds left in the rate window (0: none)
    winReqs,        \* history: issuance requests seen in the window
    winPassed,      \* history: of these, the requests that passed the check
    okCount,        \* history: successful verifications since that code
    events          \* history: arrivals and clock advances (concurrent runs),
                    \* rejected store calls (runs with a failing store)

vars == <<store, targets, activeSms, activeEmail, nodeEnv, pc, ctx,
          issued, prevIssued, fails, verified, age, winLeft, winReqs,
          winPassed, okCount, events>>

hist == <<issued, prevIssued, fails, verified, age, winLeft, winReqs,
          winPassed, okCount>>
conf == <<targets, activeSms, activeEmail, nodeEnv>>

\* the records and the history of an identifier, as a request finds them
Snapshot(identifier) ==
    [otp |-> store[OtpKey(identifier)],
     attempts |-> store[AttemptsKey(identifier)],
     rate |-> store[RateLimitKey(identifier)],
     issued |-> issued[identifier],
     prevIssued |-> prevIssued[identifier],
     fails |-> fails[identifier],
     verified |-> verified[identifier],
     age |-> age[identifier]]

NoSnapshot == [otp |-> Absent, attempts |-> Absent, rate |-> Absent,
               issued |-> <<>>, prevIssued |-> <<>>, fails |-> 0,
               verified |-> <<>>, age |-> 0]

IdleCtx == [op |-> "none", channel |-> "", id |-> <<>>, otp |-> <<>>,
            storedHash |-> Nil, current |-> Nil, attempts |-> 0,
            outcome |-> "", status |-> 0, success |-> FALSE,
            message |-> "", remaining |-> 0,
            handed |-> <<>>,     \* the code in the message given to the provider
            console |-> <<>>,    \* the code written by console.log
            failedAt |-> "",     \* the await at which the store call rejected
            via |-> "",          \* activeProvider that sendOTP was called on
            calls |-> 0,         \* calls of a provider's sendOTP
            startProvider |-> "",   \* history: active provider at the start
            switchedTo |-> "",      \* history: last switch before the dispatch
            provider |-> "",        \* the provider field of a switch request
            seq |-> 0, rank |-> 0, pre |-> NoSnapshot]   \* history only

AllIdle == \A p \in Procs : pc[p] = "idle"

\* request contexts are anonymous: a new request takes the first free one
IsFree(p) == pc[p] = "idle" /\ \A q \in Procs : q < p => pc[q] # "idle"

\* values of NODE_ENV that the code tells apart
NodeEnvs == {"production", "development"}

\* MessagingService.initialize: providers set from the configuration, if any
Configs == {[sms |-> "None", email |-> "None"],
            [sms |-> "Hubtel", email |-> "SMTP"]}

\* the state after construction, whatever identifiers the run addresses
InitState ==
    /\ store = [k \in AllKeys |-> Absent]
    /\ \E c \in Configs : activeSms = c.sms /\ activeEmail = c.email
    /\ nodeEnv \in NodeEnvs
    /\ pc = [p \in Procs |-> "idle"]
    /\ ctx = [p \in Procs |-> IdleCtx]
    /\ issued = [i \in AllIds |-> <<>>]
    /\ prevIssued = [i \in AllIds |-> <<>>]
    /\ fails = [i \in AllIds |-> 0]
    /\ verified = [i \in AllIds |-> <<>>]
    /\ age = [i \in AllIds |-> OTP_EXPIRY]
    /\ winLeft = [i \in AllIds |-> 0]
    /\ winReqs = [i \in AllIds |-> 0]
    /\ winPassed = [i \in AllIds |-> 0]
    /\ okCount = [i \in AllIds |-> 0]
    /\ events = 0

Init == targets \in {{i} : i \in Ids} /\ InitState

Min(a, b) == IF a < b THEN a ELSE b
Max(a, b) == IF a > b THEN a ELSE b

\* the route's response: res.status(code).json({success, message})
Respond(p, code, ok, msg, extra) ==
    /\ pc' = [pc EXCEPT ![p] = "done"]
    /\ ctx' = [ctx EXCEPT ![p] = [extra EXCEPT !.status = code,
                                               !.success = ok,
                                               !.message = msg]]

\* ------------------------------------------------- POST /api/otp/send
StartSend(p, in, snap) ==
    /\ pc[p] = "idle"
    /\ pc' = [pc EXCEPT ![p] = "s_check"]
    /\ ctx' = [ctx EXCEPT ![p] = [IdleCtx EXCEPT
                                      !.op = "send",
                                      !.channel = in.channel,
                                      !.id = in.id,
                                      !.startProvider =
                                          IF in.channel = "sms" THEN activeSms
                                          ELSE activeEmail,
                                      !.pre = snap]]
    /\ UNCHANGED <<store, conf, hist>>

\* variant: the limit is compared with > instead of >=
checkRateLimit_Gt(st, identifier) ==
    LET count == Get(st, RateLimitKey(identifier))
    IN  ~(count # Nil /\ parseInt(count) > MAX_OTP_PER_HOUR)

\* OTPService.checkRateLimit: allowed?
checkRateLimit(st, identifier) ==
    LET count == Get(st, RateLimitKey(identifier))
    IN  ~(count # Nil /\ parseInt(count) >= MAX_OTP_PER_HOUR)

\* variant: a denied check is counted as a request of the window
SendCheck_Charge(p) ==
    LET i == ctx[p].id
        n == IF winLeft[i] = 0 THEN 1
             ELSE Min(winReqs[i] + 1, MAX_OTP_PER_HOUR + 1)
        m == IF winLeft[i] = 0 THEN 0 ELSE winPassed[i]
    IN
    /\ pc[p] = "s_check"
    /\ winReqs' = [winReqs EXCEPT ![i] = n]
    /\ winLeft' = [winLeft EXCEPT ![i] = IF @ = 0 THEN RATE_LIMIT_WINDOW ELSE @]
    /\ IF checkRateLimit(store, i)
       THEN /\ pc' = [pc EXCEPT ![p] = "s_setOtp"]
            /\ ctx' = [ctx EXCEPT ![p].seq = n, ![p].rank = m + 1]
            /\ winPassed' = [winPassed EXCEPT ![i] = m + 1]
            /\ store' = store
       ELSE /\ Respond(p, 429, FALSE, MsgRateLimit, [ctx[p] EXCEPT !.seq = n])
            /\ winPassed' = [winPassed EXCEPT ![i] = m]
            /\ store' = Incr(store, RateLimitKey(i))
    /\ UNCHANGED <<conf, issued, prevIssued, fails, verified, age, okCount>>

\* sendOTP: await checkRateLimit, return the denial or go on to generate
SendCheck(p) ==
    LET i == ctx[p].id
        n == IF winLeft[i] = 0 THEN 1
             ELSE Min(winReqs[i] + 1, MAX_OTP_PER_HOUR + 1)
        m == IF winLeft[i] = 0 THEN 0 ELSE winPassed[i]
    IN
    /\ pc[p] = "s_check"
    /\ winReqs' = [winReqs EXCEPT ![i] = n]
    /\ winLeft' = [winLeft EXCEPT ![i] = IF @ = 0 THEN RATE_LIMIT_WINDOW ELSE @]
    /\ IF checkRateLimit(store, i)
       THEN /\ pc' = [pc EXCEPT ![p] = "s_setOtp"]
            /\ ctx' = [ctx EXCEPT ![p].seq = n, ![p].rank = m + 1]
            /\ winPassed' = [winPassed EXCEPT ![i] = m + 1]
       ELSE /\ Respond(p, 429, FALSE, MsgRateLimit, [ctx[p] EXCEPT !.seq = n])
            /\ winPassed' = [winPassed EXCEPT ![i] = m]
    /\ UNCHANGED <<store, conf, issued, prevIssued, fails, verified, age, okCount>>

\* variant: a live code record is not overwritten (set-if-absent)
StoreOtp_IfAbsent(p, r) ==
    LET i == ctx[p].id
        otp == generateOTP(r)
    IN
    /\ pc[p] = "s_setOtp"
    /\ store' = IF Get(store, OtpKey(i)) = Nil
                THEN SetEx(store, OtpKey(i), OTP_EXPIRY, hashOTP(otp))
                ELSE store
    /\ pc' = [pc EXCEPT ![p] = "s_setAtt"]
    /\ ctx' = [ctx EXCEPT ![p].otp = otp]
    /\ issued' = [issued EXCEPT ![i] = otp]
    /\ prevIssued' = [prevIssued EXCEPT ![i] = issued[i]]
    /\ fails' = [fails EXCEPT ![i] = 0]
    /\ verified' = [verified EXCEPT ![i] = <<>>]
    /\ age' = [age EXCEPT ![i] = 0]
    /\ okCount' = [okCount EXCEPT ![i] = 0]
    /\ UNCHANGED <<conf, winLeft, winReqs, winPassed>>

\* variant: the code record is written with the rate window as its TTL
StoreOtp_WindowTTL(p, r) ==
    LET i == ctx[p].id
        otp == generateOTP(r)
    IN
    /\ pc[p] = "s_setOtp"
    /\ store' = SetEx(store, OtpKey(i), RATE_LIMIT_WINDOW, hashOTP(otp))
    /\ pc' = [pc EXCEPT ![p] = "s_setAtt"]
    /\ ctx' = [ctx EXCEPT ![p].otp = otp]
    /\ issued' = [issued EXCEPT ![i] = otp]
    /\ prevIssued' = [prevIssued EXCEPT ![i] = issued[i]]
    /\ fails' = [fails EXCEPT ![i] = 0]
    /\ verified' = [verified EXCEPT ![i] = <<>>]
    /\ age' = [age EXCEPT ![i] = 0]
    /\ okCount' = [okCount EXCEPT ![i] = 0]
    /\ UNCHANGED <<conf, winLeft, winReqs, winPassed>>

\* generateOTP, then storeOTP's first write: setEx(otpKey, OTP_EXPIRY, hash)
StoreOtp(p, r) ==
    LET i == ctx[p].id
        otp == generateOTP(r)
    IN
    /\ pc[p] = "s_setOtp"
    /\ store' = SetEx(store, OtpKey(i), OTP_EXPIRY, hashOTP(otp))
    /\ pc' = [pc EXCEPT ![p] = "s_setAtt"]
    /\ ctx' = [ctx EXCEPT ![p].otp = otp]
    /\ issued' = [issued EXCEPT ![i] = otp]
    /\ prevIssued' = [prevIssued EXCEPT ![i] = issued[i]]
    /\ fails' = [fails EXCEPT ![i] = 0]
    /\ verified' = [verified EXCEPT ![i] = <<>>]
    /\ age' = [age EXCEPT ![i] = 0]
    /\ okCount' = [okCount EXCEPT ![i] = 0]
    /\ UNCHANGED <<conf, winLeft, winReqs, winPassed>>

\* storeOTP's second write: setEx(attemptsKey, OTP_EXPIRY, '0')
ResetAttempts(p) ==
    /\ pc[p] = "s_setAtt"
    /\ store' = SetEx(store, AttemptsKey(ctx[p].id), OTP_EXPIRY, Dec(<<0>>))
    /\ pc' = [pc EXCEPT ![p] = "s_rlGet"]
    /\ UNCHANGED <<ctx, conf, hist>>

\* incrementRateLimit: current = await get(rateLimitKey)
RateGet(p) ==
    /\ pc[p] = "s_rlGet"
    /\ ctx' = [ctx EXCEPT ![p].current = Get(store, RateLimitKey(ctx[p].id))]
    /\ pc' = [pc EXCEPT ![p] = "s_rlWrite"]
    /\ UNCHANGED <<store, conf, hist>>

\* variant: the incremented count is written back with a new window
RateWrite_Rewind(p) ==
    LET k == RateLimitKey(ctx[p].id) IN
    /\ pc[p] = "s_rlWrite"
    /\ store' = IF ctx[p].current = Nil
                THEN SetEx(store, k, RATE_LIMIT_WINDOW, Dec(<<1>>))
                ELSE SetEx(store, k, RATE_LIMIT_WINDOW,
                           Dec(toString(parseInt(ctx[p].current) + 1)))
    /\ pc' = [pc EXCEPT ![p] = "s_deliver"]
    /\ UNCHANGED <<ctx, conf, hist>>

\* variant: a new rate counter gets the code lifetime as its TTL
RateWrite_ShortWindow(p) ==
    LET k == RateLimitKey(ctx[p].id) IN
    /\ pc[p] = "s_rlWrite"
    /\ store' = IF ctx[p].current = Nil
                THEN SetEx(store, k, OTP_EXPIRY, Dec(<<1>>))
                ELSE Incr(store, k)
    /\ pc' = [pc EXCEPT ![p] = "s_deliver"]
    /\ UNCHANGED <<ctx, conf, hist>>

\* incrementRateLimit: setEx(.., RATE_LIMIT_WINDOW, '1') or incr
RateWrite(p) ==
    LET k == RateLimitKey(ctx[p].id) IN
    /\ pc[p] = "s_rlWrite"
    /\ store' = IF ctx[p].current = Nil
                THEN SetEx(store, k, RATE_LIMIT_WINDOW, Dec(<<1>>))
                ELSE Incr(store, k)
    /\ pc' = [pc EXCEPT ![p] = "s_deliver"]
    /\ UNCHANGED <<ctx, conf, hist>>

\* SMSService.sendOTP / EmailService.sendOTP, out: the provider's outcome
channelResult(channel, sms, email, out) ==
    IF channel = "sms"
    THEN IF sms = "None" THEN [success |-> FALSE, message |-> MsgNoSMS]
         ELSE IF out = Delivered THEN [success |-> TRUE, message |-> MsgSent]
         ELSE [success |-> FALSE, message |-> providerError(sms, out)]
    ELSE IF email = "None" THEN [success |-> FALSE, message |-> MsgNoEmail]
         ELSE IF out = Delivered THEN [success |-> TRUE, message |-> MsgSent]
         ELSE [success |-> FALSE, message |-> providerError(email, out)]

\* the route's status for sendOTP's result
sendStatus(result) == IF result.success THEN 200 ELSE 429

\* sendOTP after storeOTP: what console.log prints of the code
consoleOutput(env, otp) == IF env = "development" THEN otp ELSE <<>>

\* the code that smsService.sendOTP / emailService.sendOTP passes on to
\* activeProvider.sendOTP
handedOver(channel, sms, email, otp) ==
    IF channel = "sms"
    THEN IF sms = "None" THEN <<>> ELSE otp
    ELSE IF email = "None" THEN <<>> ELSE otp

\* variant: a failed delivery takes back the records of the issuance
Deliver_Rollback(p, out) ==
    LET result == channelResult(ctx[p].channel, activeSms, activeEmail, out) IN
    /\ pc[p] = "s_deliver"
    /\ Respond(p, sendStatus(result), result.success, result.message,
               [ctx[p] EXCEPT
                    !.console = consoleOutput(nodeEnv, ctx[p].otp),
                    !.via = IF ctx[p].channel = "sms" THEN activeSms
                            ELSE activeEmail,
                    !.calls = IF handedOver(ctx[p].channel, activeSms,
                                            activeEmail, ctx[p].otp) # <<>>
                              THEN 1 ELSE 0,
                    !.handed = handedOver(ctx[p].channel, activeSms,
                                          activeEmail, ctx[p].otp)])
    /\ store' = IF result.success THEN store
                ELSE Del(Del(store, OtpKey(ctx[p].id)),
                         AttemptsKey(ctx[p].id))
    /\ UNCHANGED <<conf, hist>>

\* variant: when the requested channel fails, the code is sent through the
\* other channel as well
Deliver_Failover(p, out) ==
    LET result == channelResult(ctx[p].channel, activeSms, activeEmail, out)
        own == handedOver(ctx[p].channel, activeSms, activeEmail, ctx[p].otp)
        other == IF ctx[p].channel = "sms" THEN activeEmail ELSE activeSms
        second == IF ~result.success /\ other # "None" THEN 1 ELSE 0
    IN
    /\ pc[p] = "s_deliver"
    /\ Respond(p, sendStatus(result), result.success, result.message,
               [ctx[p] EXCEPT
                    !.console = consoleOutput(nodeEnv, ctx[p].otp),
                    !.via = IF ctx[p].channel = "sms" THEN activeSms
                            ELSE activeEmail,
                    !.calls = (IF own # <<>> THEN 1 ELSE 0) + second,
                    !.handed = IF second = 1 THEN ctx[p].otp ELSE own])
    /\ UNCHANGED <<store, conf, hist>>

\* variant: the request uses the provider that was active when it started
Deliver_Captured(p, out) ==
    LET sms == IF ctx[p].channel = "sms" THEN ctx[p].startProvider ELSE activeSms
        result == channelResult(ctx[p].channel, sms, activeEmail, out) IN
    /\ pc[p] = "s_deliver"
    /\ Respond(p, sendStatus(result), result.success, result.message,
               [ctx[p] EXCEPT
                    !.console = consoleOutput(nodeEnv, ctx[p].otp),
                    !.via = IF ctx[p].channel = "sms" THEN sms
                            ELSE activeEmail,
                    !.calls = IF handedOver(ctx[p].channel, sms,
                                            activeEmail, ctx[p].otp) # <<>>
                              THEN 1 ELSE 0,
                    !.handed = handedOver(ctx[p].channel, sms,
                                          activeEmail, ctx[p].otp)])
    /\ UNCHANGED <<store, conf, hist>>

\* sendOTP from the development-mode log to its result, and the route's
\* response
Deliver(p, out) ==
    LET result == channelResult(ctx[p].channel, activeSms, activeEmail, out) IN
    /\ pc[p] = "s_deliver"
    /\ Respond(p, sendStatus(result), result.success, result.message,
               [ctx[p] EXCEPT
                    !.console = consoleOutput(nodeEnv, ctx[p].otp),
                    !.via = IF ctx[p].channel = "sms" THEN activeSms
                            ELSE activeEmail,
                    !.calls = IF handedOver(ctx[p].channel, activeSms,
                                            activeEmail, ctx[p].otp) # <<>>
                              THEN 1 ELSE 0,
                    !.handed = handedOver(ctx[p].channel, activeSms,
                                          activeEmail, ctx[p].otp)])
    /\ UNCHANGED <<store, conf, hist>>

\* ------------------------------------- POST /api/providers/sms/switch
\* the providers that createProvider can build, by getProviderName()
SmsProviders == {"Hubtel", "Twilio", "Mnotify", "Arkesel"}

\* provider names of a switch request: the four that createProvider knows,
\* in several spellings, and one that it does not know
SwitchNames == {"hubtel", "TWILIO", "Mnotify", "arkesel", "Nexmo"}

\* String.prototype.toLowerCase on the names of switch requests and of
\* providers; the other names used are in lower case already
toLowerCase(name) ==
    CASE name \in {"TWILIO", "Twilio"} -> "twilio"
      [] name = "Hubtel" -> "hubtel"
      [] name = "Mnotify" -> "mnotify"
      [] name = "Arkesel" -> "arkesel"
      [] name = "Nexmo" -> "nexmo"
      [] OTHER -> name

\* variant: the name is compared as it is given
createProvider_CaseSensitive(providerName) ==
    CASE providerName = "hubtel" -> "Hubtel"
      [] providerName = "twilio" -> "Twilio"
      [] providerName = "mnotify" -> "Mnotify"
      [] providerName = "arkesel" -> "Arkesel"
      [] OTHER -> "None"

\* SMSService.createProvider: the provider, or null
createProvider(providerName) ==
    CASE toLowerCase(providerName) = "hubtel" -> "Hubtel"
      [] toLowerCase(providerName) = "twilio" -> "Twilio"
      [] toLowerCase(providerName) = "mnotify" -> "Mnotify"
      [] toLowerCase(providerName) = "arkesel" -> "Arkesel"
      [] OTHER -> "None"

\* the issuance requests that have not yet reached their dispatch
BeforeDispatch(p) ==
    /\ ctx[p].op = "send" /\ ctx[p].channel = "sms"
    /\ pc[p] \in {"s_check", "s_setOtp", "s_setAtt", "s_rlGet", "s_rlWrite",
                  "s_deliver"}

\* the route and MessagingService.switchSMSProvider: synchronous, the
\* request is answered in the step in which it arrives
switchSMSProvider(p, providerName) ==
    LET provider == createProvider(providerName)
        answer == [IdleCtx EXCEPT
                      !.op = "switch",
                      !.provider = providerName,
                      !.startProvider = activeSms,
                      !.status = IF provider = "None" THEN 400 ELSE 200,
                      !.success = provider # "None",
                      !.message =
                          IF provider = "None"
                          THEN "Unknown SMS provider: " \o providerName
                          ELSE "Switched to " \o provider,
                      !.switchedTo = IF provider = "None" THEN "" ELSE provider]
    IN
    /\ pc[p] = "idle"
    /\ pc' = [pc EXCEPT ![p] = "done"]
    /\ activeSms' = IF provider = "None" THEN activeSms ELSE provider
    /\ ctx' = [q \in Procs |->
                  IF q = p THEN answer
                  ELSE IF provider # "None" /\ BeforeDispatch(q)
                  THEN [ctx[q] EXCEPT !.switchedTo = provider]
                  ELSE ctx[q]]
    /\ UNCHANGED <<store, targets, activeEmail, nodeEnv, hist>>

\* MessagingService.getActiveProviders
getActiveProviders == [sms |-> activeSms, email |-> activeEmail]

\* ------------------------------------------------ POST /api/otp/verify
StartVerify(p, identifier, otp, snap) ==
    /\ pc[p] = "idle"
    /\ pc' = [pc EXCEPT ![p] = "v_get"]
    /\ ctx' = [ctx EXCEPT ![p] = [IdleCtx EXCEPT !.op = "verify",
                                                 !.id = identifier,
                                                 !.otp = otp,
                                                 !.pre = snap]]
    /\ UNCHANGED <<store, conf, hist>>

\* the route: validateRequiredFields, isValidOTP, then verifyOTP
RouteVerify(p, identifier, otp, snap) ==
    LET c == [IdleCtx EXCEPT !.op = "verify", !.id = identifier,
                             !.otp = otp, !.pre = snap]
    IN
    IF otp = <<>>
    THEN /\ pc[p] = "idle"
         /\ Respond(p, 400, FALSE, MsgMissingOtp, c)
         /\ UNCHANGED <<store, conf, hist>>
    ELSE IF ~isValidOTP(otp)
    THEN /\ pc[p] = "idle"
         /\ Respond(p, 400, FALSE, MsgBadFormat, c)
         /\ UNCHANGED <<store, conf, hist>>
    ELSE StartVerify(p, identifier, otp, snap)

\* storedHash = await get(otpKey); absent: 'OTP expired or not found'
\* variant: a lookup that finds no code record counts as an attempt
VerifyGet_CountMiss(p) ==
    LET storedHash == Get(store, OtpKey(ctx[p].id)) IN
    /\ pc[p] = "v_get"
    /\ IF storedHash = Nil
       THEN /\ Respond(p, 400, FALSE, MsgNotFound, ctx[p])
            /\ store' = Incr(store, AttemptsKey(ctx[p].id))
       ELSE /\ pc' = [pc EXCEPT ![p] = "v_att"]
            /\ ctx' = [ctx EXCEPT ![p].storedHash = storedHash]
            /\ UNCHANGED store
    /\ UNCHANGED <<conf, hist>>

\* storedHash = await get(otpKey); absent: 'OTP expired or not found'
VerifyGet(p) ==
    LET storedHash == Get(store, OtpKey(ctx[p].id)) IN
    /\ pc[p] = "v_get"
    /\ IF storedHash = Nil
       THEN Respond(p, 400, FALSE, MsgNotFound, ctx[p])
       ELSE /\ pc' = [pc EXCEPT ![p] = "v_att"]
            /\ ctx' = [ctx EXCEPT ![p].storedHash = storedHash]
    /\ UNCHANGED <<store, conf, hist>>

\* attempts = attemptsStr ? parseInt(attemptsStr) : 0
readAttempts(st, identifier) ==
    LET attemptsStr == Get(st, AttemptsKey(identifier))
    IN  IF attemptsStr # Nil THEN parseInt(attemptsStr) ELSE 0

\* variant: the attempt limit is compared with > instead of >=
verifyBranch_Gt(attempts, otp, storedHash) ==
    IF attempts > MAX_ATTEMPTS THEN "exceeded"
    ELSE IF hashOTP(otp) = storedHash THEN "match"
    ELSE "mismatch"

\* branch taken after the attempts read
verifyBranch(attempts, otp, storedHash) ==
    IF attempts >= MAX_ATTEMPTS THEN "exceeded"
    ELSE IF hashOTP(otp) = storedHash THEN "match"
    ELSE "mismatch"

VerifyAttempts(p) ==
    LET attempts == readAttempts(store, ctx[p].id)
        branch == verifyBranch(attempts, ctx[p].otp, ctx[p].storedHash)
    IN
    /\ pc[p] = "v_att"
    /\ ctx' = [ctx EXCEPT ![p].attempts = attempts, ![p].outcome = branch]
    /\ pc' = [pc EXCEPT ![p] = IF branch = "mismatch" THEN "v_incr" ELSE "v_delOtp"]
    /\ UNCHANGED <<store, conf, hist>>

\* variant: the code record is not deleted after a match
VerifyDelOtp_KeepOnMatch(p) ==
    /\ pc[p] = "v_delOtp"
    /\ store' = IF ctx[p].outcome = "match" THEN store
                ELSE Del(store, OtpKey(ctx[p].id))
    /\ pc' = [pc EXCEPT ![p] = "v_delAtt"]
    /\ UNCHANGED <<ctx, conf, hist>>

\* await del(otpKey)
VerifyDelOtp(p) ==
    /\ pc[p] = "v_delOtp"
    /\ store' = Del(store, OtpKey(ctx[p].id))
    /\ pc' = [pc EXCEPT ![p] = "v_delAtt"]
    /\ UNCHANGED <<ctx, conf, hist>>

\* variant: the cleanup after a match deletes the rate counter as well
VerifyDelAttempts_AllKeys(p) ==
    LET i == ctx[p].id IN
    /\ pc[p] = "v_delAtt"
    /\ store' = IF ctx[p].outcome = "match"
                THEN Del(Del(store, AttemptsKey(i)), RateLimitKey(i))
                ELSE Del(store, AttemptsKey(i))
    /\ IF ctx[p].outcome = "match"
       THEN /\ Respond(p, 200, TRUE, MsgVerified, ctx[p])
            /\ verified' = [verified EXCEPT ![i] = ctx[p].otp]
            /\ okCount' = [okCount EXCEPT ![i] = @ + 1]
       ELSE /\ Respond(p, 400, FALSE, MsgExceeded, ctx[p])
            /\ UNCHANGED <<verified, okCount>>
    /\ UNCHANGED <<conf, issued, prevIssued, fails, age, winLeft, winReqs,
                   winPassed>>

\* await del(attemptsKey); return
VerifyDelAttempts(p) ==
    LET i == ctx[p].id IN
    /\ pc[p] = "v_delAtt"
    /\ store' = Del(store, AttemptsKey(i))
    /\ IF ctx[p].outcome = "match"
       THEN /\ Respond(p, 200, TRUE, MsgVerified, ctx[p])
            /\ verified' = [verified EXCEPT ![i] = ctx[p].otp]
            /\ okCount' = [okCount EXCEPT ![i] = @ + 1]
       ELSE /\ Respond(p, 400, FALSE, MsgExceeded, ctx[p])
            /\ UNCHANGED <<verified, okCount>>
    /\ UNCHANGED <<conf, issued, prevIssued, fails, age, winLeft, winReqs,
                   winPassed>>

\* variant: remaining is computed from the count before the increment
VerifyIncr_OffByOne(p) ==
    LET i == ctx[p].id IN
    /\ pc[p] = "v_incr"
    /\ store' = Incr(store, AttemptsKey(i))
    /\ Respond(p, 400, FALSE, MsgInvalid,
               [ctx[p] EXCEPT !.remaining = MAX_ATTEMPTS - ctx[p].attempts])
    /\ fails' = [fails EXCEPT ![i] = @ + 1]
    /\ UNCHANGED <<conf, issued, prevIssued, verified, age, winLeft, winReqs,
                   winPassed, okCount>>

\* variant: the mismatch that uses up the last attempt deletes both records
VerifyIncr_EagerDelete(p) ==
    LET i == ctx[p].id IN
    /\ pc[p] = "v_incr"
    /\ store' = IF ctx[p].attempts + 1 >= MAX_ATTEMPTS
                THEN Del(Del(store, OtpKey(i)), AttemptsKey(i))
                ELSE Incr(store, AttemptsKey(i))
    /\ Respond(p, 400, FALSE, MsgInvalid,
               [ctx[p] EXCEPT !.remaining = MAX_ATTEMPTS - (ctx[p].attempts + 1)])
    /\ fails' = [fails EXCEPT ![i] = @ + 1]
    /\ UNCHANGED <<conf, issued, prevIssued, verified, age, winLeft, winReqs,
                   winPassed, okCount>>

\* await incr(attemptsKey); remaining = MAX_ATTEMPTS - (attempts + 1)
VerifyIncr(p) ==
    LET i == ctx[p].id IN
    /\ pc[p] = "v_incr"
    /\ store' = Incr(store, AttemptsKey(i))
    /\ Respond(p, 400, FALSE, MsgInvalid,
               [ctx[p] EXCEPT !.remaining = MAX_ATTEMPTS - (ctx[p].attempts + 1)])
    /\ fails' = [fails EXCEPT ![i] = @ + 1]
    /\ UNCHANGED <<conf, issued, prevIssued, verified, age, winLeft, winReqs,
                   winPassed, okCount>>

\* the response has been sent; the request context ends
Reply(p) ==
    /\ pc[p] = "done"
    /\ pc' = [pc EXCEPT ![p] = "idle"]
    /\ ctx' = [ctx EXCEPT ![p] = IdleCtx]
    /\ UNCHANGED <<store, conf, hist>>

\* ------------------------------------------------------------------ time
\* d seconds pass
Tick(d) ==
    /\ store' = Expire(store, d)
    /\ age' = [i \in AllIds |-> Min(age[i] + d, OTP_EXPIRY)]
    /\ winLeft' = [i \in AllIds |-> Max(winLeft[i] - d, 0)]
    /\ winReqs' = [i \in AllIds |-> IF winLeft[i] - d <= 0 THEN 0 ELSE winReqs[i]]
    /\ winPassed' = [i \in AllIds |->
                        IF winLeft[i] - d <= 0 THEN 0 ELSE winPassed[i]]
    /\ UNCHANGED <<conf, pc, ctx, issued, prevIssued, fails, verified, okCount>>

\* positions at which a request awaits the Redis client
StoreOps == {"s_check", "s_setOtp", "s_setAtt", "s_rlGet", "s_rlWrite",
             "v_get", "v_att", "v_delOtp", "v_delAtt", "v_incr"}

\* variant: the records written before the failure are taken back
StoreFail_Compensate(p) ==
    /\ pc[p] \in StoreOps
    /\ Respond(p, 500, FALSE, MsgServerError,
               [ctx[p] EXCEPT !.failedAt = pc[p]])
    /\ store' = IF ctx[p].op = "send"
                THEN Del(Del(store, OtpKey(ctx[p].id)), AttemptsKey(ctx[p].id))
                ELSE store
    /\ UNCHANGED <<conf, hist>>

\* the awaited Redis call rejects: the exception leaves storeOTP, sendOTP
\* (or verifyOTP) and is caught by the route, which answers 500
StoreFail(p) ==
    /\ pc[p] \in StoreOps
    /\ Respond(p, 500, FALSE, MsgServerError,
               [ctx[p] EXCEPT !.failedAt = pc[p]])
    /\ UNCHANGED <<store, conf, hist>>

\* one step of a request in flight
Step(p) ==
    \/ SendCheck(p)
    \/ \E r \in 0..(RandSteps - 1) : StoreOtp(p, r)
    \/ ResetAttempts(p)
    \/ RateGet(p)
    \/ RateWrite(p)
    \/ \E out \in ProviderOutcomes : Deliver(p, out)
    \/ VerifyGet(p)
    \/ VerifyAttempts(p)
    \/ VerifyDelOtp(p)
    \/ VerifyDelAttempts(p)
    \/ VerifyIncr(p)
    \/ Reply(p)

\* requests handled one after another: a request starts, and time passes,
\* only while no other request is in flight
SeqStartSend ==
    \E p \in Procs, in \in SendInputs :
        /\ AllIdle /\ IsFree(p) /\ in.id \in targets
        /\ StartSend(p, in, Snapshot(in.id))
        /\ UNCHANGED events
SeqStartVerify ==
    \E p \in Procs, i \in targets, c \in VerifyCodes :
        /\ AllIdle /\ IsFree(p)
        /\ StartVerify(p, i, c, Snapshot(i))
        /\ UNCHANGED events
SeqTick == AllIdle /\ Tick(TickLen) /\ UNCHANGED events
SeqStep == \E p \in Procs : Step(p) /\ UNCHANGED events

Next ==
    \/ SeqStartSend
    \/ SeqStartVerify
    \/ SeqStep
    \/ SeqTick

Spec == Init /\ [][Next]_vars

\* requests handled one after another, with a store that may fail; no
\* time passes
SeqStoreFail ==
    \E p \in Procs : events < MaxFails /\ StoreFail(p) /\ events' = events + 1

FailNext ==
    \/ SeqStartSend
    \/ SeqStartVerify
    \/ SeqStep
    \/ SeqStoreFail

FailSpec == Init /\ [][FailNext]_vars

\* issuance requests for an address and for its alias in the attempts
\* namespace, one after another, no time passes
KeyInit ==
    /\ targets = {Email1, Alias1}
    /\ InitState /\ activeEmail # "None" /\ nodeEnv = "production"

KeyNext ==
    \/ SeqStartSend
    \/ SeqStep

KeySpec == KeyInit /\ [][KeyNext]_vars

\* sms issuance requests one after another, with provider switches at
\* any moment, no time passes
SwitchInit == Init /\ targets = {Phone1} /\ nodeEnv = "production"

SwitchStep ==
    \E p \in Procs, n \in SwitchNames :
        /\ events < MaxSwitches /\ IsFree(p)
        /\ switchSMSProvider(p, n)
        /\ events' = events + 1

SwitchNext ==
    \/ SeqStartSend
    \/ SeqStep
    \/ SwitchStep

SwitchSpec == SwitchInit /\ [][SwitchNext]_vars

\* concurrent requests: independent contexts interleave at every await
ConcStartSend ==
    \E p \in Procs, in \in SendInputs :
        /\ events < MaxEvents /\ IsFree(p) /\ in.id \in targets
        /\ StartSend(p, in, NoSnapshot)
        /\ events' = events + 1
ConcStartVerify ==
    \E p \in Procs, i \in targets, c \in VerifyCodes :
        /\ events < MaxEvents /\ IsFree(p)
        /\ StartVerify(p, i, c, NoSnapshot)
        /\ events' = events + 1
ConcStep == \E p \in Procs : Step(p) /\ UNCHANGED events
ConcTick ==
    \E d \in {TickLen, RATE_LIMIT_WINDOW} :
        events < MaxEvents /\ Tick(d) /\ events' = events + 1

ConcNext ==
    \/ ConcStartSend
    \/ ConcStartVerify
    \/ ConcStep
    \/ ConcTick

\* concurrent runs: one identifier, both providers configured, production
ConcInit ==
    Init /\ targets = {Phone1} /\ activeSms # "None" /\ nodeEnv = "production"

ConcSpec == ConcInit /\ [][ConcNext]_vars

\* requests handled one after another, while time passes at any moment,
\* also between two awaits of the request in flight
LapseTick ==
    \E d \in {TickLen, RATE_LIMIT_WINDOW} :
        events < MaxLapses /\ Tick(d) /\ events' = events + 1

LapseNext ==
    \/ SeqStartSend
    \/ SeqStartVerify
    \/ SeqStep
    \/ LapseTick

LapseSpec == ConcInit /\ [][LapseNext]_vars

\* concurrent issuances and verifications, no time passes
MixRaceNext ==
    \/ ConcStartSend
    \/ ConcStartVerify
    \/ ConcStep

MixRaceSpec == ConcInit /\ [][MixRaceNext]_vars

\* concurrent verifications of an issued code: an issuance runs alone, a
\* verification starts while no issuance is in flight, no time passes
NoSendInFlight == \A p \in Procs : ctx[p].op # "send"
RaceStartSend == AllIdle /\ ConcStartSend
RaceStartVerify == NoSendInFlight /\ ConcStartVerify

VerifyRaceNext ==
    \/ RaceStartSend
    \/ RaceStartVerify
    \/ ConcStep

VerifyRaceSpec == ConcInit /\ [][VerifyRaceNext]_vars

\* concurrent issuance requests, no time passes
IssueRaceNext ==
    \/ ConcStartSend
    \/ ConcStep

IssueRaceSpec == ConcInit /\ [][IssueRaceNext]_vars

\* racing issuances followed by verifications: the first calls of a run
\* are issuances, which interleave with each other; a verification starts
\* only when every issuance has returned and no other verification runs; no
\* time passes
Racers == 2
NoVerifyInFlight == \A p \in Procs : ctx[p].op # "verify"
SendsReturned == \A p \in Procs : ctx[p].op = "send" => pc[p] = "done"
AfterStartSend ==
    \E p \in Procs, in \in SendInputs :
        /\ events < Racers /\ IsFree(p) /\ in.id \in targets
        /\ NoVerifyInFlight
        /\ StartSend(p, in, NoSnapshot)
        /\ events' = events + 1
AfterStartVerify ==
    \E p \in Procs, i \in targets, c \in VerifyCodes :
        /\ events < RaceCalls /\ IsFree(p)
        /\ SendsReturned /\ NoVerifyInFlight
        /\ StartVerify(p, i, c, Snapshot(i))
        /\ events' = events + 1

VerifyAfterRaceNext ==
    \/ AfterStartSend
    \/ AfterStartVerify
    \/ ConcStep

VerifyAfterRaceSpec == ConcInit /\ [][VerifyAfterRaceNext]_vars

\* verifications racing a reissuance: an issuance starts while no request
\* is in flight, a verification starts while no other verification is in
\* flight, also between the awaits of an issuance; no time passes
ReissueStartVerify ==
    \E p \in Procs, i \in targets, c \in VerifyCodes :
        /\ events < MaxEvents /\ IsFree(p) /\ NoVerifyInFlight
        /\ StartVerify(p, i, c, NoSnapshot)
        /\ events' = events + 1

ReissueRaceNext ==
    \/ SeqStartSend
    \/ ReissueStartVerify
    \/ SeqStep

ReissueRaceSpec == ConcInit /\ [][ReissueRaceNext]_vars

\* requests handled one after another, verifications with well-formed
\* and malformed codes
FormatStartVerify ==
    \E p \in Procs, i \in targets, c \in VerifyCodes \cup MalformedCodes :
        /\ AllIdle /\ IsFree(p)
        /\ RouteVerify(p, i, c, Snapshot(i))
        /\ UNCHANGED events

FormatNext ==
    \/ SeqStartSend
    \/ FormatStartVerify
    \/ SeqStep
    \/ SeqTick

FormatSpec == Init /\ [][FormatNext]_vars

TypeOK ==
    /\ \A k \in AllKeys : store[k].val.kind \in {"nil", "dec", "sha256hex"}
    /\ \A p \in Procs : pc[p] \in {"idle", "s_check", "s_setOtp", "s_setAtt",
                                     "s_rlGet", "s_rlWrite", "s_deliver",
                                     "v_get", "v_att", "v_delOtp", "v_delAtt",
                                     "v_incr", "done"}
    /\ nodeEnv \in NodeEnvs
    /\ \A i \in Ids : winPassed[i] \in 0..(MaxEvents + 1)

\* ------------------------------------------------------------ properties
\* a request of the given kind has just been answered
Answered(p, kind) == pc[p] = "done" /\ ctx[p].op = kind

Present(entry) == entry.val # Nil

\* C1: once Verify(identifier, code) has succeeded, a later Verify for that
\* identifier with the same code, with no issuance in between, is answered
\* 'OTP expired or not found'; no code verifies successfully twice.
C1_SingleValidity ==
    /\ \A p \in Procs :
        (Answered(p, "verify") /\ ctx[p].pre.verified = ctx[p].otp)
            => (ctx[p].message = MsgNotFound /\ ~ctx[p].success)
    /\ \A i \in Ids : okCount[i] <= 1

C1_Witness ==
    \E p \in Procs :
        /\ Answered(p, "verify")
        /\ ctx[p].pre.verified = ctx[p].otp
        /\ ctx[p].otp = issued[ctx[p].id]
        /\ ctx[p].message = MsgNotFound

\* C2: after exactly MAX_ATTEMPTS consecutive mismatches against one issued
\* code that is still live, the next verification, even with the correct
\* code, is answered 'Maximum verification attempts exceeded', and afterwards
\* the code record and the attempt counter are both absent.
C2_AttemptBound ==
    \A p \in Procs :
        (/\ Answered(p, "verify")
         /\ ctx[p].pre.fails = MAX_ATTEMPTS
         /\ Present(ctx[p].pre.otp))
            => /\ ctx[p].message = MsgExceeded
               /\ ~ctx[p].success
               /\ store[OtpKey(ctx[p].id)] = Absent
               /\ store[AttemptsKey(ctx[p].id)] = Absent

C2_Witness ==
    \E p \in Procs :
        /\ Answered(p, "verify")
        /\ ctx[p].pre.fails = MAX_ATTEMPTS
        /\ Present(ctx[p].pre.otp)
        /\ ctx[p].otp = ctx[p].pre.issued
        /\ ctx[p].message = MsgExceeded

\* C3: of the issuance requests made one after another in one rate window,
\* the MAX_OTP_PER_HOUR-th is allowed and stores its code, and the next one
\* is denied with the rate-limit message and status 429, issuing no code.
C3_RateBound ==
    \A p \in Procs :
        Answered(p, "send") =>
            /\ ctx[p].seq <= MAX_OTP_PER_HOUR =>
                   /\ ctx[p].message # MsgRateLimit
                   /\ ctx[p].otp \in GenCodes
                   /\ store[OtpKey(ctx[p].id)].val = hashOTP(ctx[p].otp)
                   /\ parseInt(store[RateLimitKey(ctx[p].id)].val) = ctx[p].seq
            /\ ctx[p].seq = MAX_OTP_PER_HOUR + 1 =>
                   /\ ctx[p].message = MsgRateLimit
                   /\ ctx[p].status = 429
                   /\ ~ctx[p].success
                   /\ ctx[p].otp = <<>>
                   /\ issued[ctx[p].id] = ctx[p].pre.issued
                   /\ store[OtpKey(ctx[p].id)] = ctx[p].pre.otp

C3_Witness ==
    \E p \in Procs :
        /\ Answered(p, "send")
        /\ ctx[p].seq = MAX_OTP_PER_HOUR + 1
        /\ ctx[p].pre.rate.val = Dec(toString(MAX_OTP_PER_HOUR))
        /\ ctx[p].status = 429

\* C4: in every reachable store state a code record holds the hash of the
\* issued code, never the raw code, and no key of the store holds a raw code.
C4_HashedOnly ==
    /\ \A i \in Ids :
        Present(store[OtpKey(i)]) =>
            /\ store[OtpKey(i)].val = hashOTP(issued[i])
            /\ store[OtpKey(i)].val.kind = "sha256hex"
            /\ store[OtpKey(i)].val # Dec(issued[i])
    /\ \A k \in AllKeys, c \in GenCodes : store[k].val # Dec(c)

C4_Witness ==
    \E i \in Ids :
        /\ issued[i] \in GenCodes
        /\ store[OtpKey(i)].val = Sha256Hex(issued[i])

\* C5: a Verify submitted when OTP_EXPIRY seconds or more have passed since
\* the last issuance for the identifier is answered 'OTP expired or not
\* found', also for the correct code, and leaves the attempt counter alone.
C5_Expiry ==
    \A p \in Procs :
        (/\ Answered(p, "verify")
         /\ ctx[p].pre.issued # <<>>
         /\ ctx[p].pre.age >= OTP_EXPIRY)
            => /\ ctx[p].message = MsgNotFound
               /\ ~ctx[p].success
               /\ store[AttemptsKey(ctx[p].id)] = ctx[p].pre.attempts
               /\ fails[ctx[p].id] = ctx[p].pre.fails

C5_Witness ==
    \E p \in Procs :
        /\ Answered(p, "verify")
        /\ ctx[p].pre.age >= OTP_EXPIRY
        /\ ctx[p].pre.verified = <<>>
        /\ ctx[p].pre.fails < MAX_ATTEMPTS
        /\ ctx[p].otp = ctx[p].pre.issued
        /\ ctx[p].message = MsgNotFound

\* the count held by a counter record, an absent one counting as 0
Count(entry) == IF Present(entry) THEN parseInt(entry.val) ELSE 0

\* C6: an issuance for an identifier whose attempt counter is k > 0 leaves
\* the attempt counter at 0 with a fresh OTP_EXPIRY lifetime, while the rate
\* counter is raised by exactly one and, being present, keeps its TTL.
C6_ReissueResetsAttemptsNotRate ==
    \A p \in Procs :
        (/\ Answered(p, "send")
         /\ ctx[p].message # MsgRateLimit
         /\ Count(ctx[p].pre.attempts) > 0)
            => LET i == ctx[p].id IN
               /\ store[AttemptsKey(i)] =
                      [val |-> Dec(<<0>>), ttl |-> OTP_EXPIRY, persist |-> FALSE]
               /\ Present(store[RateLimitKey(i)])
               /\ Count(store[RateLimitKey(i)]) = Count(ctx[p].pre.rate) + 1
               /\ Present(ctx[p].pre.rate) =>
                      /\ store[RateLimitKey(i)].ttl = ctx[p].pre.rate.ttl
                      /\ store[RateLimitKey(i)].persist = ctx[p].pre.rate.persist

C6_Witness ==
    \E p \in Procs :
        /\ Answered(p, "send")
        /\ ctx[p].message # MsgRateLimit
        /\ Count(ctx[p].pre.attempts) = 2
        /\ ctx[p].pre.attempts.ttl < OTP_EXPIRY
        /\ Present(ctx[p].pre.rate)
        /\ ctx[p].pre.rate.ttl < RATE_LIMIT_WINDOW
        /\ store[RateLimitKey(ctx[p].id)].ttl = ctx[p].pre.rate.ttl

\* C7: when two different codes c1 and c2 have been issued one after the
\* other for an identifier, the code record holds the hash of c2 only; a
\* Verify with c1 is then a Mismatch and a Verify with c2 succeeds.
C7_LatestCodeWins ==
    /\ \A i \in Ids :
        Present(store[OtpKey(i)]) => store[OtpKey(i)].val = hashOTP(issued[i])
    /\ \A p \in Procs :
        (/\ Answered(p, "verify")
         /\ Present(ctx[p].pre.otp)
         /\ ctx[p].pre.fails < MAX_ATTEMPTS
         /\ ctx[p].pre.prevIssued # <<>>
         /\ ctx[p].pre.prevIssued # ctx[p].pre.issued)
            => /\ ctx[p].otp = ctx[p].pre.prevIssued =>
                      (ctx[p].message = MsgInvalid /\ ~ctx[p].success)
               /\ ctx[p].otp = ctx[p].pre.issued =>
                      (ctx[p].message = MsgVerified /\ ctx[p].success)

C7_Witness ==
    \E p \in Procs :
        /\ Answered(p, "verify")
        /\ ctx[p].pre.prevIssued \in GenCodes
        /\ ctx[p].pre.prevIssued # ctx[p].pre.issued
        /\ ctx[p].pre.fails > 0
        /\ ctx[p].otp = ctx[p].pre.issued
        /\ ctx[p].message = MsgVerified

\* C8: a Verify with a wrong code against a live code record whose attempt
\* counter is a < MAX_ATTEMPTS is rejected reporting MAX_ATTEMPTS - (a + 1)
\* remaining attempts, leaves the counter at a + 1 and the code record in
\* place; the k-th wrong guess after an issuance reports MAX_ATTEMPTS - k.
C8_MismatchResult ==
    \A p \in Procs :
        (/\ Answered(p, "verify")
         /\ Present(ctx[p].pre.otp)
         /\ ctx[p].otp # ctx[p].pre.issued
         /\ Count(ctx[p].pre.attempts) < MAX_ATTEMPTS)
            => LET i == ctx[p].id
                   a == Count(ctx[p].pre.attempts)
               IN
               /\ ctx[p].message = MsgInvalid
               /\ ctx[p].status = 400
               /\ ~ctx[p].success
               /\ ctx[p].remaining = MAX_ATTEMPTS - (a + 1)
               /\ ctx[p].remaining = MAX_ATTEMPTS - fails[i]
               /\ store[AttemptsKey(i)] =
                      [ctx[p].pre.attempts EXCEPT !.val = Dec(toString(a + 1))]
               /\ store[OtpKey(i)] = ctx[p].pre.otp

C8_Witness ==
    \E p \in Procs :
        /\ Answered(p, "verify")
        /\ Present(ctx[p].pre.otp)
        /\ ctx[p].otp = WrongCode
        /\ Count(ctx[p].pre.attempts) = MAX_ATTEMPTS - 1
        /\ ctx[p].message = MsgInvalid
        /\ ctx[p].remaining = 0

C10_SingleUseConcurrent ==
    \A i \in Ids : issued[i] # <<>> => okCount[i] <= 1

\* C11: in every interleaving of concurrent verifications, the calls that
\* compare a submitted code with the hash of one issued code are at most
\* MAX_ATTEMPTS wrong guesses plus one success.
C11_AttemptBoundConcurrent ==
    \A i \in Ids :
        (issued[i] # <<>> /\ prevIssued[i] = <<>>) =>
            /\ fails[i] <= MAX_ATTEMPTS
            /\ fails[i] + okCount[i] <= MAX_ATTEMPTS + 1

\* C12: in every interleaving of concurrent issuance requests for one
\* identifier, at most MAX_OTP_PER_HOUR requests of one rate window pass the
\* rate check, store a code and reach the channel.
C12_RateBoundConcurrent ==
    \A p \in Procs :
        (Answered(p, "send") /\ ctx[p].handed # <<>>) =>
            ctx[p].rank <= MAX_OTP_PER_HOUR

\* the failure messages that the configured providers can return
ProviderErrors ==
    {providerError(c.sms, t) : c \in Configs, t \in ErrorTexts} \cup
    {providerError(c.email, t) : c \in Configs, t \in ErrorTexts} \cup
    {providerError(n, t) : n \in SmsProviders, t \in ErrorTexts}

\* an issuance that passed the rate check and whose delivery failed, or
\* whose channel has no provider
DeliveryFailed(p) ==
    /\ Answered(p, "send")
    /\ ctx[p].rank > 0
    /\ \/ ctx[p].handed # <<>> /\ ctx[p].message \in ProviderErrors
       \/ ctx[p].handed = <<>> /\ ctx[p].message \in {MsgNoSMS, MsgNoEmail}

\* C13: after an issuance that passed the rate check and whose channel
\* reported failure or has no provider, the code record, the attempt counter
\* and the rate-counter increment of that issuance are all in the store.
C13_NoRollback ==
    \A p \in Procs :
        DeliveryFailed(p) =>
            /\ ~ctx[p].success
            /\ store[OtpKey(ctx[p].id)] =
                   [val |-> hashOTP(ctx[p].otp), ttl |-> OTP_EXPIRY,
                    persist |-> FALSE]
            /\ store[AttemptsKey(ctx[p].id)] =
                   [val |-> Dec(<<0>>), ttl |-> OTP_EXPIRY, persist |-> FALSE]
            /\ Present(store[RateLimitKey(ctx[p].id)])
            /\ Count(store[RateLimitKey(ctx[p].id)]) =
                   Count(ctx[p].pre.rate) + 1

C13_Witness ==
    \E p \in Procs :
        /\ DeliveryFailed(p)
        /\ ctx[p].message = providerError("Hubtel", MsgNoSMS)
        /\ ctx[p].handed \in GenCodes
        /\ Count(ctx[p].pre.rate) = 1
        /\ Count(store[RateLimitKey(ctx[p].id)]) = 2

\* the records of the issuance of request p, as its writes leave them
NewOtpRecord(p) ==
    [val |-> hashOTP(ctx[p].otp), ttl |-> OTP_EXPIRY, persist |-> FALSE]
NewAttemptsRecord == [val |-> Dec(<<0>>), ttl |-> OTP_EXPIRY, persist |-> FALSE]

\* C14: when one of the three store writes of an issuance fails, the later
\* writes are not performed, the earlier ones stay as written, no code is
\* handed to the channel, and the caller gets an error, not success.
C14_AbortOnStoreFailure ==
    \A p \in Procs :
        (Answered(p, "send") /\
         ctx[p].failedAt \in {"s_setOtp", "s_setAtt", "s_rlGet", "s_rlWrite"}) =>
            LET i == ctx[p].id IN
            /\ ctx[p].status = 500 /\ ~ctx[p].success
            /\ ctx[p].message = MsgServerError
            /\ ctx[p].handed = <<>>
            /\ store[RateLimitKey(i)] = ctx[p].pre.rate
            /\ store[AttemptsKey(i)] =
                   IF ctx[p].failedAt \in {"s_setOtp", "s_setAtt"}
                   THEN ctx[p].pre.attempts ELSE NewAttemptsRecord
            /\ store[OtpKey(i)] =
                   IF ctx[p].failedAt = "s_setOtp"
                   THEN ctx[p].pre.otp ELSE NewOtpRecord(p)

C14_Witness ==
    \E p \in Procs :
        /\ Answered(p, "send")
        /\ ctx[p].failedAt = "s_rlWrite"
        /\ Present(ctx[p].pre.otp)
        /\ store[OtpKey(ctx[p].id)] = NewOtpRecord(p)
        /\ store[OtpKey(ctx[p].id)].val # ctx[p].pre.otp.val
        /\ Present(ctx[p].pre.rate)

\* C15: whatever a verification answers (success, Mismatch,
\* AttemptsExceeded, NotFound), the rate counter of the identifier has the
\* value and the remaining TTL that the call found; after a success the
\* code record and the attempt counter are gone and the rate counter is
\* still there.
C15_VerifyKeepsRateCounter ==
    \A p \in Procs :
        Answered(p, "verify") =>
            LET i == ctx[p].id IN
            /\ ctx[p].message \in {MsgVerified, MsgInvalid, MsgExceeded,
                                   MsgNotFound}
            /\ store[RateLimitKey(i)] = ctx[p].pre.rate
            /\ ctx[p].message = MsgVerified =>
                   /\ ~Present(store[OtpKey(i)])
                   /\ ~Present(store[AttemptsKey(i)])
                   /\ Present(store[RateLimitKey(i)])

\* C15, amended: whatever a verification answers, the rate counter of the
\* identifier is exactly as the call found it (value and remaining TTL, or
\* absent if its window had already ended); after a success the code record
\* and the attempt counter are gone.
C15_VerifyLeavesRateCounter ==
    \A p \in Procs :
        Answered(p, "verify") =>
            LET i == ctx[p].id IN
            /\ ctx[p].message \in {MsgVerified, MsgInvalid, MsgExceeded,
                                   MsgNotFound}
            /\ store[RateLimitKey(i)] = ctx[p].pre.rate
            /\ ctx[p].message = MsgVerified =>
                   /\ ~Present(store[OtpKey(i)])
                   /\ ~Present(store[AttemptsKey(i)])

C15_Witness ==
    \E p \in Procs :
        /\ Answered(p, "verify")
        /\ ctx[p].message = MsgVerified
        /\ Present(ctx[p].pre.otp)
        /\ Count(store[RateLimitKey(ctx[p].id)]) = 2
        /\ store[RateLimitKey(ctx[p].id)].ttl = RATE_LIMIT_WINDOW - TickLen

\* C16: a verification for an identifier without a code record answers
\* 'expired or not found' and leaves the store as it was: no attempt counter
\* is created, nothing is incremented, nothing is deleted.
C16_NotFoundNoEffect ==
    \A p \in Procs :
        (Answered(p, "verify") /\ ~Present(ctx[p].pre.otp)) =>
            LET i == ctx[p].id IN
            /\ ctx[p].message = MsgNotFound
            /\ ctx[p].status = 400 /\ ~ctx[p].success
            /\ store[OtpKey(i)] = ctx[p].pre.otp
            /\ store[AttemptsKey(i)] = ctx[p].pre.attempts
            /\ ~Present(store[AttemptsKey(i)])
            /\ store[RateLimitKey(i)] = ctx[p].pre.rate

C16_Witness ==
    \E p \in Procs :
        /\ Answered(p, "verify")
        /\ ~Present(ctx[p].pre.otp)
        /\ ctx[p].message = MsgNotFound
        /\ ctx[p].otp = ctx[p].pre.issued
        /\ Present(store[RateLimitKey(ctx[p].id)])

\* six-digit strings with a leading zero
LeadingZeroCodes == {<<0, 4, 8, 2, 1, 3>>, <<0, 0, 0, 0, 0, 0>>}

\* C17: generateOTP always returns a string of exactly 6 decimal digits,
\* and every 6-digit decimal string, "048213" and "000000" included, is one
\* of its possible outputs.
C17_EverySixDigitString ==
    /\ \A p \in Procs :
        (ctx[p].op = "send" /\ ctx[p].otp # <<>>) => isValidOTP(ctx[p].otp)
    /\ \A c \in LeadingZeroCodes :
        \E r \in 0..(RandSteps - 1) : generateOTP(r) = c

\* C17, amended: generateOTP always returns a string of exactly 6 decimal
\* digits whose first digit is not 0, the decimal form of a number from
\* 100000 to 999999; no issuance carries a code with a leading zero.
C17_SixDigitsNoLeadingZero ==
    \A p \in Procs :
        (ctx[p].op = "send" /\ ctx[p].otp # <<>>) =>
            /\ isValidOTP(ctx[p].otp)
            /\ ctx[p].otp[1] # 0
            /\ DigitsVal(ctx[p].otp) \in 100000..999999
            /\ ctx[p].otp \notin LeadingZeroCodes

C17_Witness ==
    \E p \in Procs :
        /\ Answered(p, "send")
        /\ ctx[p].otp # <<>>
        /\ DigitsVal(ctx[p].otp) = 100000
        /\ store[OtpKey(ctx[p].id)].val = hashOTP(ctx[p].otp)

\* C18: in every issuance, under every value of NODE_ENV, the raw code goes
\* only into the message handed to the channel and is never written to
\* console output.
C18_NeverLogged ==
    \A p \in Procs : ctx[p].op = "send" => ctx[p].console = <<>>

\* C19: with no SMS provider configured, a send request with channel 'sms'
\* that passes the rate check stores the code and is answered with status
\* 500 and the 'No SMS provider' message.
C19_NoSmsProviderIs500 ==
    \A p \in Procs :
        (Answered(p, "send") /\ ctx[p].channel = "sms" /\ activeSms = "None"
         /\ ctx[p].rank > 0) =>
            /\ store[OtpKey(ctx[p].id)].val = hashOTP(ctx[p].otp)
            /\ ctx[p].message = MsgNoSMS
            /\ ctx[p].status = 500

\* C20: the send endpoint answers 429 only when the rate limiter denied the
\* request; a delivery failure, a missing channel configuration or a store
\* failure is never answered with 429.
C20_OnlyDenialIs429 ==
    \A p \in Procs :
        (Answered(p, "send") /\ ctx[p].status = 429) =>
            /\ ctx[p].message = MsgRateLimit
            /\ ctx[p].rank = 0

\* C21: the result of an issuance tells 'no channel configured for the
\* requested modality' from a failure reported by a configured channel: for
\* every channel, identifier and error text the two results differ.
C21_NoChannelDistinct ==
    /\ \A p \in Procs :
        (Answered(p, "send") /\ ctx[p].rank > 0 /\ ~ctx[p].success) =>
            /\ ctx[p].handed = <<>> => ctx[p].message \in {MsgNoSMS, MsgNoEmail}
            /\ ctx[p].handed # <<>> =>
                   /\ ctx[p].message \in ProviderErrors
                   /\ ctx[p].message \notin {MsgNoSMS, MsgNoEmail}
    /\ \A in \in SendInputs, c \in Configs, t \in ErrorTexts :
        (c.sms # "None" /\ c.email # "None") =>
            channelResult(in.channel, "None", "None", t) #
                channelResult(in.channel, c.sms, c.email, t)

C21_Witness ==
    \E p \in Procs :
        /\ Answered(p, "send") /\ ctx[p].channel = "sms"
        /\ ctx[p].handed \in GenCodes
        /\ ctx[p].message = providerError("Hubtel", MsgNoSMS)
        /\ ~ctx[p].success

\* C22: the keys of the three record kinds are disjoint over all accepted
\* identifiers, so an issuance for one identifier never overwrites a record
\* of another identifier or of another kind: an attempts key and a rate key
\* never hold a code hash, a code-record key never holds a counter.
C22_KeySpaceSeparation ==
    \A i \in targets :
        /\ store[AttemptsKey(i)].val.kind # "sha256hex"
        /\ store[RateLimitKey(i)].val.kind # "sha256hex"
        /\ store[OtpKey(i)].val.kind # "dec"

\* C23: a send request that is in flight when switchSMSProvider runs is
\* delivered through the provider that was active when the request started,
\* whatever the interleaving of the switch with the request's steps.
C23_InFlightKeepsProvider ==
    \A p \in Procs :
        (Answered(p, "send") /\ ctx[p].channel = "sms" /\ ctx[p].rank > 0) =>
            ctx[p].via = ctx[p].startProvider

\* C23, amended: a send request is delivered through the provider that is
\* active when its dispatch runs: the provider of the last switch made
\* before the dispatch, also when the request was then already in flight,
\* and the provider active at its start if there was no such switch.
C23_ProviderAtDispatch ==
    \A p \in Procs :
        (Answered(p, "send") /\ ctx[p].channel = "sms" /\ ctx[p].rank > 0) =>
            ctx[p].via = IF ctx[p].switchedTo # "" THEN ctx[p].switchedTo
                         ELSE ctx[p].startProvider

C23_Witness ==
    \E p \in Procs :
        /\ Answered(p, "send") /\ ctx[p].channel = "sms"
        /\ ctx[p].startProvider = "Hubtel"
        /\ ctx[p].switchedTo = "Twilio"
        /\ ctx[p].via = "Twilio"
        /\ ctx[p].handed \in GenCodes

\* the active provider of the channel that request p asked for
OwnProvider(p) == IF ctx[p].channel = "sms" THEN activeSms ELSE activeEmail

\* C24: an issuance request calls the Deliver operation of at most one
\* channel, at most once, and only after its code record, attempt counter
\* and rate counter writes; a rate-limited request generates no code, writes
\* nothing to the store and calls no channel.
C24_NoRetryNoFailover ==
    \A p \in Procs :
        ctx[p].op = "send" =>
            LET i == ctx[p].id IN
            /\ ctx[p].calls <= 1
            /\ ctx[p].calls = 1 <=> ctx[p].handed # <<>>
            /\ ctx[p].handed # <<>> =>
                   /\ pc[p] = "done"
                   /\ ctx[p].handed = ctx[p].otp
                   /\ ctx[p].via = OwnProvider(p) /\ ctx[p].via # "None"
                   /\ store[OtpKey(i)] = NewOtpRecord(p)
                   /\ store[AttemptsKey(i)] = NewAttemptsRecord
                   /\ Count(store[RateLimitKey(i)]) = Count(ctx[p].pre.rate) + 1
            /\ (pc[p] = "done" /\ ctx[p].message = MsgRateLimit) =>
                   /\ ctx[p].rank = 0
                   /\ ctx[p].otp = <<>>
                   /\ ctx[p].calls = 0 /\ ctx[p].handed = <<>>
                   /\ store[OtpKey(i)] = ctx[p].pre.otp
                   /\ store[AttemptsKey(i)] = ctx[p].pre.attempts
                   /\ store[RateLimitKey(i)] = ctx[p].pre.rate
                   /\ issued[i] = ctx[p].pre.issued

C24_Witness ==
    \E p \in Procs :
        /\ Answered(p, "send") /\ ctx[p].channel = "email"
        /\ ~ctx[p].success
        /\ ctx[p].calls = 1
        /\ ctx[p].via = "SMTP"
        /\ activeSms # "None"
        /\ Count(store[RateLimitKey(ctx[p].id)]) = MAX_OTP_PER_HOUR

\* C25: the expiry of the rate counter is fixed by the first issuance of a
\* window: a later issuance that finds the counter present raises it by one
\* and leaves its remaining TTL as it is, so RATE_LIMIT_WINDOW seconds after
\* the first issuance of the window the counter is absent, and the next
\* issuance is allowed and starts a new window at 1.
C25_WindowAnchoring ==
    /\ \A i \in targets :
        AllIdle =>
            /\ Present(store[RateLimitKey(i)]) <=> winLeft[i] > 0
            /\ Present(store[RateLimitKey(i)]) =>
                   /\ store[RateLimitKey(i)].ttl = winLeft[i]
                   /\ ~store[RateLimitKey(i)].persist
    /\ \A p \in Procs :
        (Answered(p, "send") /\ ctx[p].rank > 0) =>
            store[RateLimitKey(ctx[p].id)] =
                IF Present(ctx[p].pre.rate)
                THEN [ctx[p].pre.rate EXCEPT
                          !.val = Dec(toString(parseInt(@) + 1))]
                ELSE [val |-> Dec(<<1>>), ttl |-> RATE_LIMIT_WINDOW,
                      persist |-> FALSE]
    /\ \A p \in Procs :
        (Answered(p, "send") /\ ~Present(ctx[p].pre.rate)) =>
            /\ ctx[p].rank = 1
            /\ ctx[p].message # MsgRateLimit

C25_Witness ==
    \E p \in Procs :
        /\ Answered(p, "send")
        /\ ctx[p].pre.issued # <<>>
        /\ ~Present(ctx[p].pre.rate)
        /\ store[RateLimitKey(ctx[p].id)] =
               [val |-> Dec(<<1>>), ttl |-> RATE_LIMIT_WINDOW, persist |-> FALSE]

\* C26: in every reachable state, also when the counter's TTL elapses
\* between the read and the increment of one issuance, a rate counter that
\* is present has a finite TTL of at most the rate window.
C26_RateCounterExpires ==
    \A i \in targets :
        Present(store[RateLimitKey(i)]) =>
            /\ ~store[RateLimitKey(i)].persist
            /\ store[RateLimitKey(i)].ttl \in 1..RATE_LIMIT_WINDOW

\* C27: in every reachable state, also when the counter expires between
\* Verify's read and its increment, an attempt counter that is present has a
\* finite TTL of at most the code lifetime.
C27_AttemptCounterExpires ==
    \A i \in targets :
        Present(store[AttemptsKey(i)]) =>
            /\ ~store[AttemptsKey(i)].persist
            /\ store[AttemptsKey(i)].ttl \in 1..OTP_EXPIRY

\* C28: whenever no call is in progress, each identifier's code record is
\* present exactly if its attempt counter is present, and the two have the
\* same remaining lifetime.
C28_LiveAndDieTogether ==
    AllIdle =>
        \A i \in targets :
            /\ Present(store[OtpKey(i)]) <=> Present(store[AttemptsKey(i)])
            /\ Present(store[OtpKey(i)]) =>
                   /\ store[OtpKey(i)].ttl = store[AttemptsKey(i)].ttl
                   /\ store[OtpKey(i)].persist = store[AttemptsKey(i)].persist

\* exactly two issuances for the identifier have passed the rate check and
\* written a code record, and no verification has completed since the later
\* of the two writes
TwoIssued(i) ==
    /\ winPassed[i] = 2
    /\ prevIssued[i] # <<>>
    /\ fails[i] = 0 /\ verified[i] = <<>>

\* C29: when two issuances for one identifier have run in any interleaving
\* and both have returned, with no verification in between, the code record
\* holds the hash of the code of one of them and the attempt counter is 0;
\* a verification with that code succeeds, one with any other code, the
\* other issuance's included, is a mismatch with MAX_ATTEMPTS - 1 left.
C29_RacingIssuances ==
    /\ \A p, q \in Procs :
        (/\ p # q /\ Answered(p, "send") /\ Answered(q, "send")
         /\ ctx[p].rank > 0 /\ ctx[q].rank > 0
         /\ ctx[p].id = ctx[q].id
         /\ TwoIssued(ctx[p].id)
         /\ \A r \in Procs \ {p, q} : pc[r] = "idle")
            => LET i == ctx[p].id IN
               /\ store[OtpKey(i)].val \in {hashOTP(ctx[p].otp), hashOTP(ctx[q].otp)}
               /\ store[OtpKey(i)].val = hashOTP(issued[i])
               /\ store[AttemptsKey(i)] =
                      [val |-> Dec(<<0>>), ttl |-> OTP_EXPIRY, persist |-> FALSE]
    /\ \A p \in Procs :
        (/\ Answered(p, "verify")
         /\ winPassed[ctx[p].id] = 2
         /\ ctx[p].pre.prevIssued # <<>>
         /\ ctx[p].pre.fails = 0 /\ ctx[p].pre.verified = <<>>)
            => IF ctx[p].otp = ctx[p].pre.issued
               THEN /\ ctx[p].success /\ ctx[p].status = 200
                    /\ ctx[p].message = MsgVerified
               ELSE /\ ~ctx[p].success /\ ctx[p].status = 400
                    /\ ctx[p].message = MsgInvalid
                    /\ ctx[p].remaining = MAX_ATTEMPTS - 1

\* the issuance that passed the rate check second wrote its code first and
\* is overwritten by the other; the surviving code then verifies
C29_Witness ==
    \E p, q \in Procs :
        /\ Answered(q, "send") /\ ctx[q].rank = 2
        /\ Answered(p, "verify") /\ ctx[p].id = ctx[q].id
        /\ winPassed[ctx[p].id] = 2
        /\ ctx[p].pre.fails = 0 /\ ctx[p].pre.verified = <<>>
        /\ ctx[q].otp = ctx[p].pre.prevIssued
        /\ ctx[q].otp # ctx[p].pre.issued
        /\ ctx[p].otp = ctx[p].pre.issued
        /\ ctx[p].message = MsgVerified

\* C30: once all of the concurrent issuances for an identifier have
\* returned, the rate counter equals the number of issuances of the window
\* that passed the rate check and completed their store step.
C30_NoLostRateUpdate ==
    (\A p \in Procs : pc[p] \in {"idle", "done"}) =>
        \A i \in targets :
            Count(store[RateLimitKey(i)]) = winPassed[i]

\* verification p has deleted the code record after reading the hash of a
\* code other than the one that issuance q wrote last; both have returned
\* and no other verification has consumed the code of q
DeletedUnexamined(p, q) ==
    LET i == ctx[p].id IN
    /\ Answered(p, "verify") /\ ctx[p].outcome \in {"match", "exceeded"}
    /\ Answered(q, "send") /\ ctx[q].rank > 0 /\ ctx[q].id = i
    /\ issued[i] = ctx[q].otp
    /\ ctx[p].storedHash # hashOTP(ctx[q].otp)
    /\ \A r \in Procs \ {p, q} : pc[r] = "idle"
    /\ verified[i] # ctx[q].otp
    /\ okCount[i] <= (IF ctx[p].outcome = "match" THEN 1 ELSE 0)
    /\ fails[i] < MAX_ATTEMPTS

\* C31: when a verification that read the hash of c1 deletes the code
\* record while a concurrent issuance replaces it with the hash of c2, then
\* after both calls have returned the code record of c2 is still in the
\* store.
C31_VerifyKeepsNewerCode ==
    \A p, q \in Procs :
        DeletedUnexamined(p, q) =>
            LET i == ctx[p].id IN
            /\ Present(store[OtpKey(i)])
            /\ store[OtpKey(i)].val = hashOTP(ctx[q].otp)

\* C32: a verification with the code that an issuance wrote last, made
\* after fewer than MAX_ATTEMPTS mismatches against that code, is never
\* answered 'Maximum verification attempts exceeded', whatever mismatches were
\* made against the code issued before.
C32_AttemptsDoNotCarryOver ==
    \A p \in Procs :
        (/\ Answered(p, "verify")
         /\ ctx[p].storedHash = hashOTP(issued[ctx[p].id])
         /\ fails[ctx[p].id] < MAX_ATTEMPTS)
            => ctx[p].message # MsgExceeded

\* C33: an issuance that the rate check denies generates no code, hands
\* nothing to a provider and leaves the code record, the attempt counter and
\* the rate counter of the identifier as they were, values and TTLs; a code
\* issued before the denial that is still live then verifies.
C33_DeniedIssuanceNoEffect ==
    /\ \A p \in Procs :
        (Answered(p, "send") /\ ctx[p].message = MsgRateLimit) =>
            LET i == ctx[p].id IN
            /\ store[OtpKey(i)] = ctx[p].pre.otp
            /\ store[AttemptsKey(i)] = ctx[p].pre.attempts
            /\ store[RateLimitKey(i)] = ctx[p].pre.rate
            /\ Count(ctx[p].pre.rate) = MAX_OTP_PER_HOUR
            /\ ctx[p].otp = <<>> /\ ctx[p].handed = <<>>
            /\ issued[i] = ctx[p].pre.issued
    /\ \A p \in Procs :
        (/\ Answered(p, "verify")
         /\ winReqs[ctx[p].id] = MAX_OTP_PER_HOUR + 1
         /\ Present(ctx[p].pre.otp)
         /\ Count(ctx[p].pre.attempts) < MAX_ATTEMPTS
         /\ ctx[p].otp = ctx[p].pre.issued)
            => ctx[p].success /\ ctx[p].message = MsgVerified

\* a denied issuance for an identifier with a live code and a mismatch on
\* record
C33_Witness ==
    \E p \in Procs :
        /\ Answered(p, "send") /\ ctx[p].message = MsgRateLimit
        /\ Present(ctx[p].pre.otp)
        /\ Count(ctx[p].pre.attempts) > 0
        /\ store[OtpKey(ctx[p].id)].val = hashOTP(issued[ctx[p].id])

\* C34: an attempt counter that is present is a decimal integer >= 0, and
\* whenever no verification is in flight it equals the number of mismatched
\* verifications answered since the last issuance wrote its code: every
\* mismatch raised it by one and nothing but an issuance lowered it.
C34_AttemptCounterMonotone ==
    \A i \in targets :
        Present(store[AttemptsKey(i)]) =>
            /\ store[AttemptsKey(i)].val.kind = "dec"
            /\ Count(store[AttemptsKey(i)]) >= 0
            /\ (NoVerifyInFlight /\ NoSendInFlight) =>
                   Count(store[AttemptsKey(i)]) = fails[i]

\* C35: a verify request whose otp is not exactly six decimal digits is
\* answered 400 without any read or write of the store: the code record and
\* the attempt counter are as before the request and no mismatch is counted;
\* every code that generateOTP returns passes isValidOTP.
C35_MalformedCostsNothing ==
    /\ \A p \in Procs :
        (Answered(p, "verify") /\ ctx[p].otp \in MalformedCodes) =>
            LET i == ctx[p].id IN
            /\ ctx[p].status = 400 /\ ~ctx[p].success
            /\ ctx[p].message \in {MsgMissingOtp, MsgBadFormat}
            /\ ctx[p].storedHash = Nil /\ ctx[p].outcome = ""
            /\ store[OtpKey(i)] = ctx[p].pre.otp
            /\ store[AttemptsKey(i)] = ctx[p].pre.attempts
            /\ store[RateLimitKey(i)] = ctx[p].pre.rate
            /\ fails[i] = ctx[p].pre.fails
    /\ \A p \in Procs :
        (ctx[p].op = "verify" /\ pc[p] \notin {"idle", "done"}) =>
            ctx[p].otp \notin MalformedCodes
    /\ \A c \in GenCodes : isValidOTP(c)
    /\ \A p \in Procs :
        (ctx[p].op = "send" /\ ctx[p].otp # <<>>) => isValidOTP(ctx[p].otp)

\* the first five digits of the live code are submitted: rejected for
\* their format while the code record has a mismatch on its counter
C35_Witness ==
    \E p \in Procs :
        /\ Answered(p, "verify")
        /\ Present(ctx[p].pre.otp)
        /\ Count(ctx[p].pre.attempts) = 1
        /\ ctx[p].otp = SubSeq(ctx[p].pre.issued, 1, 5)
        /\ ctx[p].message = MsgBadFormat
        /\ store[AttemptsKey(ctx[p].id)] = ctx[p].pre.attempts

\* the names that createProvider knows, in lower case
KnownNames == {"hubtel", "twilio", "mnotify", "arkesel"}

\* this step is the switch request handled in context p
SwitchBy(p) == pc[p] = "idle" /\ pc'[p] = "done" /\ ctx'[p].op = "switch"

\* this step is the dispatch of the sms issuance in context p
DispatchBy(p) ==
    pc[p] = "s_deliver" /\ pc'[p] = "done" /\ ctx[p].channel = "sms"

\* C36: a switch request with a name that is, in lower case, none of
\* hubtel, twilio, mnotify, arkesel is answered with failure and leaves the
\* active SMS provider as it is; one with a known name in any spelling is
\* answered with success and makes that provider the active one, which
\* getActiveProviders reports and every SMS dispatch uses, and no step other
\* than a successful switch changes it.
C36_SwitchOutcome ==
    [][ /\ \A p \in Procs :
            SwitchBy(p) =>
                LET n == ctx'[p].provider IN
                IF toLowerCase(n) \in KnownNames
                THEN /\ ctx'[p].success /\ ctx'[p].status = 200
                     /\ activeSms' \in SmsProviders
                     /\ toLowerCase(activeSms') = toLowerCase(n)
                     /\ ctx'[p].message = "Switched to " \o activeSms'
                     /\ getActiveProviders'.sms = activeSms'
                ELSE /\ ~ctx'[p].success /\ ctx'[p].status = 400
                     /\ ctx'[p].message = "Unknown SMS provider: " \o n
                     /\ activeSms' = activeSms
                     /\ getActiveProviders' = getActiveProviders
        /\ (\A p \in Procs : ~SwitchBy(p)) =>
               getActiveProviders' = getActiveProviders
        /\ \A p \in Procs :
            DispatchBy(p) =>
                /\ ctx'[p].via = activeSms
                /\ ctx'[p].calls = IF activeSms = "None" THEN 0 ELSE 1
                /\ ctx'[p].via = IF ctx[p].switchedTo # "" THEN ctx[p].switchedTo
                                 ELSE ctx[p].startProvider
      ]_vars

\* an issuance that starts after a switch to "TWILIO" and is handed to
\* Twilio
C36_Witness ==
    \E p \in Procs :
        /\ Answered(p, "send") /\ ctx[p].channel = "sms"
        /\ ctx[p].startProvider = "Twilio" /\ ctx[p].switchedTo = ""
        /\ ctx[p].via = "Twilio" /\ ctx[p].calls = 1
        /\ ctx[p].handed \in GenCodes
        /\ getActiveProviders.sms = "Twilio"

====
